---------------------------- MODULE Spec2Model ----------------------------
(***************************************************************************)
(* Model of the jwt_auth_demo API: the User / StudentProfile /             *)
(* TeacherProfile tables (user/models.py), the post_save profile signal,   *)
(* the student and teacher registration handlers, the login handler and    *)
(* the profile handler (api/serializers.py, api/views.py).                 *)
(*                                                                         *)
(* The database runs in Django's default autocommit mode: no handler opens *)
(* a transaction, so every ORM statement of a registration is a step of    *)
(* its own and steps of concurrent requests interleave.                    *)
(***************************************************************************)
EXTENDS Naturals, Sequences, FiniteSets, TLC

VARIABLES
    users,            \* table user_user: row i has primary key i
    studentProfiles,  \* table user_studentprofile
    teacherProfiles,  \* table user_teacherprofile
    req,              \* the registration request each worker is serving
    last              \* the login or profile response answered since the
                      \* tables last changed

vars == <<users, studentProfiles, teacherProfiles, req, last>>

----------------------------------------------------------------------------
(* Input domains and bounds *)

MaxUsers == 2     \* rows the user table may hold

Usernames == {"alice", "bob"}
Emails == {"a@x.com", "b@x.com"}
Passwords == {"pw1", "pw2"}
Workers == {"w1", "w2"}

Missing == "<missing>"   \* a key the request body does not carry
Null == "<null>"         \* SQL NULL in a column
None == <<>>             \* JSON null where an object is expected
NoUser == 0

ADMIN == "ADMIN"
STUDENT == "STUDENT"
TEACHER == "TEACHER"
Role == {ADMIN, STUDENT, TEACHER}

Body(u, e, p, r) == [username |-> u, email |-> e, password |-> p, role |-> r]

\* The registration requests clients send: the endpoint (student or teacher)
\* and the JSON body.  "role" is an extra key a client may add to the body.
\* The set holds two requests per username, with equal and with different
\* emails, every value of the extra role key, a body without username and a
\* body without email.
Requests ==
    { <<"student", Body("alice", "a@x.com", "pw1", Missing)>>,
      <<"teacher", Body("alice", "b@x.com", "pw2", ADMIN)>>,
      <<"student", Body("bob", "a@x.com", "pw1", TEACHER)>>,
      <<"teacher", Body("bob", "b@x.com", "pw2", STUDENT)>>,
      <<"student", Body(Missing, "a@x.com", "pw1", Missing)>>,
      <<"teacher", Body("alice", Missing, "pw1", Missing)>> }

\* Users created outside the handlers: username, email, password.
DirectUsers == { <<"alice", "a@x.com", "pw1">>, <<"bob", "b@x.com", "pw2">> }

\* Usernames a login is tried with: the registered names, a name nobody
\* registers, and a body without username.
LoginNames == Usernames \cup {"mallory", Missing}

----------------------------------------------------------------------------
(* The store *)

\* django.contrib.auth.hashers: the stored value is never the raw password.
make_password(raw) == <<"pbkdf2_sha256", raw>>
check_password(raw, encoded) == encoded = make_password(raw)

UserIds == DOMAIN users

UsernameTaken(us, name) == \E i \in DOMAIN us : us[i].username = name

UserByName(us, name) ==
    IF UsernameTaken(us, name)
        THEN CHOOSE i \in DOMAIN us : us[i].username = name
        ELSE NoUser

HasProfile(ps, uid) == \E i \in DOMAIN ps : ps[i].user = uid
ProfileCount(ps, uid) == Cardinality({i \in DOMAIN ps : ps[i].user = uid})
ProfileOf(ps, uid) == ps[CHOOSE i \in DOMAIN ps : ps[i].user = uid]


----------------------------------------------------------------------------
(* user/models.py *)

\* User.role: CharField(default=Role.ADMIN).  An instance built without a role
\* keyword carries the field default.
RoleFieldDefault(roleArg) == IF roleArg = Missing THEN ADMIN ELSE roleArg

\* base_role of the model class an instance is saved through.
base_role(cls) ==
    CASE cls = "Student" -> STUDENT
      [] cls = "Teacher" -> TEACHER
      [] OTHER -> ADMIN

\* User.save, first statement: a new instance (no pk) keeps its role unless the
\* role is empty, and then takes the class's base_role.
User_save_role(cls, pk, role) ==
    IF pk = NoUser
        THEN (IF role # "" THEN role ELSE base_role(cls))
        ELSE role

\* Variant: a plain create in place of get_or_create.
get_or_create_always(ps, row) == Append(ps, row)

\* Manager.get_or_create(user=instance) on a profile table.
get_or_create(ps, row) ==
    IF HasProfile(ps, row.user) THEN ps ELSE Append(ps, row)

StudentProfileRow(uid) == [user |-> uid, student_id |-> Null]
TeacherProfileRow(uid) == [user |-> uid, teacher_id |-> Null]

\* Variant: a receiver that never creates a profile.
create_profile_for_user_never(uid, role, created, sp, tp) ==
    [sp |-> sp, tp |-> tp]

\* The post_save receiver.  Returns the two profile tables.
create_profile_for_user(uid, role, created, sp, tp) ==
    IF ~created
        THEN [sp |-> sp, tp |-> tp]
        ELSE IF role = STUDENT
            THEN [sp |-> get_or_create(sp, StudentProfileRow(uid)), tp |-> tp]
            ELSE IF role = TEACHER
                THEN [sp |-> sp, tp |-> get_or_create(tp, TeacherProfileRow(uid))]
                ELSE [sp |-> sp, tp |-> tp]

\* post_save.send(sender=cls): the receiver is connected with sender=User, and a
\* signal sent by another class does not reach it.
post_save(sender, uid, role, created, sp, tp) ==
    IF sender = "User"
        THEN create_profile_for_user(uid, role, created, sp, tp)
        ELSE [sp |-> sp, tp |-> tp]

\* Model.objects.create(user=user) on a profile table: the OneToOneField is a
\* unique column, a second row for the same user is an IntegrityError.
ProfileInsert(ps, row) ==
    IF HasProfile(ps, row.user)
        THEN [raised |-> "IntegrityError", ps |-> ps]
        ELSE [raised |-> "", ps |-> Append(ps, row)]

\* User.save of a new instance through class cls: role defaulting, INSERT
\* (username is unique), then post_save with created=True.
User_save_new(cls, inst, us, sp, tp) ==
    LET role == User_save_role(cls, NoUser, inst.role)
        uid == Len(us) + 1
        sig == post_save(cls, uid, role, TRUE, sp, tp)
    IN  IF UsernameTaken(us, inst.username)
            THEN [raised |-> "IntegrityError", uid |-> NoUser,
                  users |-> us, sp |-> sp, tp |-> tp]
            ELSE [raised |-> "", uid |-> uid,
                  users |-> Append(us, [inst EXCEPT !.role = role]),
                  sp |-> sig.sp, tp |-> sig.tp]

\* User.save of a persisted instance whose role was set to `role`: UPDATE, then
\* post_save with created=False.
User_save_existing(cls, uid, role, us, sp, tp) ==
    LET r == User_save_role(cls, uid, role)
        sig == post_save(cls, uid, r, FALSE, sp, tp)
    IN  [users |-> [us EXCEPT ![uid].role = r], sp |-> sig.sp, tp |-> sig.tp]

\* Variant: a manager that hashes the wrong argument.
create_user_wronghash(username, email, password, roleArg, us, sp, tp) ==
    User_save_new("User",
                  [username |-> username, email |-> email,
                   password |-> make_password(username),
                   role |-> RoleFieldDefault(roleArg)],
                  us, sp, tp)

\* User.objects.create_user(username, email, password, **extra): the default
\* UserManager builds the instance, hashes the password and saves it.
create_user(username, email, password, roleArg, us, sp, tp) ==
    User_save_new("User",
                  [username |-> username, email |-> email,
                   password |-> make_password(password),
                   role |-> RoleFieldDefault(roleArg)],
                  us, sp, tp)

----------------------------------------------------------------------------
(* Responses and the exception handler *)

Response(status, data) == [status |-> status, data |-> data]

ValidationError(detail) == [type |-> "ValidationError", detail |-> detail]
AuthenticationFailed(msg) == [type |-> "AuthenticationFailed", detail |-> msg]
NotAuthenticated ==
    [type |-> "NotAuthenticated",
     detail |-> "Authentication credentials were not provided."]
OtherError(name) == [type |-> name, detail |-> name]

\* rest_framework.views.exception_handler: the status each API exception
\* carries; any other exception is not handled (None).
ExceptionStatus(exc) ==
    CASE exc.type = "ValidationError" -> 400
      [] exc.type = "AuthenticationFailed" -> 401
      [] exc.type = "NotAuthenticated" -> 401
      [] exc.type = "InvalidToken" -> 401
      [] exc.type = "NotFound" -> 404
      [] exc.type = "MethodNotAllowed" -> 405
      [] OTHER -> 500

\* custom_exception_handler: the framework's response with status_code and
\* error added, and the detail of a 404 replaced; an exception the framework does not handle ends as the
\* server's bare 500 page.
custom_exception_handler(exc) ==
    LET status == ExceptionStatus(exc)
        body == IF exc.type = "ValidationError"
                    THEN exc.detail
                    ELSE IF status = 404
                        THEN [detail |-> "The requested resource was not found."]
                        ELSE [detail |-> exc.detail]
    IN  IF status = 500
            THEN Response(500, [server_error |-> exc.type])
            ELSE Response(status,
                          ("status_code" :> status @@ "error" :> TRUE) @@ body)

----------------------------------------------------------------------------
(* api/serializers.py: registration *)

ConflictMessage == "A user with this username or email already exists."
UniqueMessage == "A user with that username already exists."
RequiredMessage == "This field is required."

\* Variant: the username field without the model's unique validator.
RegisterSerializer_errors_nounique(us, body) ==
    [f \in {g \in {"username", "password"} : body[g] = Missing}
        |-> <<RequiredMessage>>]

\* Field validation of a ModelSerializer over User with
\* fields = (username, email, password): username is required and carries
\* the model's unique validator, password is required, email is optional
\* (the model field is blank=True).
RegisterSerializer_errors(us, body) ==
    LET bad == {f \in {"username", "password"} :
                    \/ body[f] = Missing
                    \/ f = "username" /\ UsernameTaken(us, body.username)}
    IN  [f \in bad |-> IF body[f] = Missing
                           THEN <<RequiredMessage>>
                           ELSE <<UniqueMessage>>]

\* validated_data: the declared fields only; any other key of the body, such
\* as role, is dropped.
validated_data(body) ==
    [f \in {"username", "email", "password"} |-> body[f]]

\* Variant: the teacher serializer assigning the student role.
HandlerRole_student(kind) == STUDENT

\* The role each registration serializer assigns after create_user.
HandlerRole(kind) == IF kind = "student" THEN STUDENT ELSE TEACHER

HandlerProfileRow(kind, uid) ==
    IF kind = "student" THEN StudentProfileRow(uid) ELSE TeacherProfileRow(uid)

SuccessMessage(kind) ==
    IF kind = "student"
        THEN "Student registered successfully."
        ELSE "Teacher registered successfully."

\* Variant: both serializers creating a StudentProfile.
RegisterSerializer_create_profile_student(kind, uid, sp, tp) ==
    LET r == ProfileInsert(sp, StudentProfileRow(uid))
    IN  [raised |-> r.raised, sp |-> r.ps, tp |-> tp]

\* serializer.create, third statement: StudentProfile.objects.create(user=user)
\* in the student serializer, TeacherProfile.objects.create(user=user) in the
\* teacher serializer.
RegisterSerializer_create_profile(kind, uid, sp, tp) ==
    LET r == ProfileInsert(IF kind = "student" THEN sp ELSE tp,
                           HandlerProfileRow(kind, uid))
    IN  [raised |-> r.raised,
         sp |-> IF kind = "student" THEN r.ps ELSE sp,
         tp |-> IF kind = "teacher" THEN r.ps ELSE tp]

\* Variant: no except clause, the store's exception propagates.
perform_create_except_none(raised) == OtherError(raised)

\* perform_create's except clause: IntegrityError becomes the generic
\* ValidationError, any other exception propagates.
perform_create_except(raised) ==
    IF raised = "IntegrityError"
        THEN ValidationError([non_field_errors |-> <<ConflictMessage>>])
        ELSE OtherError(raised)

\* The 201 response of the register views: serializer.data of the instance,
\* password being write-only.
RegisterCreated(kind, user) ==
    Response(201, [message |-> SuccessMessage(kind),
                   data |-> [username |-> user.username, email |-> user.email]])

----------------------------------------------------------------------------
(* api/serializers.py, api/views.py: login *)

InvalidLoginMessage == "Invalid username or password."

\* django.contrib.auth.authenticate with the model backend: the user with
\* that username whose stored hash matches the password, or none.
authenticate(us, username, password) ==
    LET uid == UserByName(us, username)
    IN  IF uid # NoUser /\ check_password(password, us[uid].password)
            THEN uid
            ELSE NoUser

\* The opaque tokens of the token issuer: what they are for and for whom.
RefreshToken(uid) == [token_type |-> "refresh", user_id |-> uid]
AccessToken(uid) == [token_type |-> "access", user_id |-> uid]
NoToken == [token_type |-> "none", user_id |-> NoUser]

\* TokenObtainPairSerializer.validate: authenticate, and fail with the
\* serializer's no_active_account message (which LoginSerializer overrides)
\* as AuthenticationFailed; otherwise the token pair.
TokenObtainPair_validate(us, attrs) ==
    LET uid == authenticate(us, attrs.username, attrs.password)
    IN  IF uid = NoUser
            THEN [raised |-> TRUE, exc |-> AuthenticationFailed(InvalidLoginMessage)]
            ELSE [raised |-> FALSE, user |-> uid,
                  data |-> [refresh |-> RefreshToken(uid),
                            access |-> AccessToken(uid)]]

\* Variant: a login that tells an unknown username from a wrong password.
LoginSerializer_validate_leaky(us, attrs) ==
    LET r == TokenObtainPair_validate(us, attrs)
    IN  IF r.raised
            THEN [raised |-> TRUE,
                  exc |-> AuthenticationFailed(
                              IF UsernameTaken(us, attrs.username)
                                  THEN "Incorrect password."
                                  ELSE "No account with this username.")]
            ELSE [raised |-> FALSE,
                  data |-> ("user_id" :> r.user
                            @@ "username" :> us[r.user].username
                            @@ "email" :> us[r.user].email
                            @@ "role" :> us[r.user].role)
                           @@ r.data]

\* LoginSerializer.validate: a ValidationError of the parent is replaced by
\* the generic one, any other exception propagates; on success the token
\* pair is extended with the user's fields.
LoginSerializer_validate(us, attrs) ==
    LET r == TokenObtainPair_validate(us, attrs)
    IN  IF r.raised
            THEN IF r.exc.type = "ValidationError"
                    THEN [raised |-> TRUE,
                          exc |-> ValidationError([detail |-> <<InvalidLoginMessage>>])]
                    ELSE r
            ELSE [raised |-> FALSE,
                  data |-> ("user_id" :> r.user
                            @@ "username" :> us[r.user].username
                            @@ "email" :> us[r.user].email
                            @@ "role" :> us[r.user].role)
                           @@ r.data]

\* Field validation of the login serializer: both fields are required.
LoginSerializer_errors(attrs) ==
    [f \in {g \in {"username", "password"} : attrs[g] = Missing}
        |-> <<RequiredMessage>>]

\* Variant: the parent's post alone, no message added.
LoginView_post_nomessage(us, attrs) ==
    LET errs == LoginSerializer_errors(attrs)
        r == LoginSerializer_validate(us, attrs)
    IN  IF DOMAIN errs # {}
            THEN custom_exception_handler(ValidationError(errs))
            ELSE IF r.raised
                THEN custom_exception_handler(r.exc)
                ELSE Response(200, r.data)

\* LoginView.post: the parent's post (is_valid, then 200 with the validated
\* data), and a message added to a 200 response.
LoginView_post(us, attrs) ==
    LET errs == LoginSerializer_errors(attrs)
        r == LoginSerializer_validate(us, attrs)
    IN  IF DOMAIN errs # {}
            THEN custom_exception_handler(ValidationError(errs))
            ELSE IF r.raised
                THEN custom_exception_handler(r.exc)
                ELSE Response(200, ("message" :> "Login successful.") @@ r.data)

----------------------------------------------------------------------------
(* api/serializers.py, api/views.py: profile *)

\* Variant: the student branch reading the teacher relation.
get_profile_swapped(uid, us, sp, tp) ==
    IF us[uid].role = STUDENT
        THEN IF HasProfile(tp, uid)
                THEN [student_id |-> ProfileOf(tp, uid).teacher_id]
                ELSE None
        ELSE None

\* Variant: a sub-object with an empty id where the profile record is absent.
get_profile_default(uid, us, sp, tp) ==
    IF us[uid].role = STUDENT
        THEN [student_id |-> IF HasProfile(sp, uid)
                                 THEN ProfileOf(sp, uid).student_id ELSE Null]
        ELSE IF us[uid].role = TEACHER
            THEN [teacher_id |-> IF HasProfile(tp, uid)
                                     THEN ProfileOf(tp, uid).teacher_id ELSE Null]
            ELSE None

\* ProfileSerializer.get_profile: the role-specific sub-object, or None.
get_profile(uid, us, sp, tp) ==
    IF us[uid].role = STUDENT
        THEN IF HasProfile(sp, uid)
                THEN [student_id |-> ProfileOf(sp, uid).student_id]
                ELSE None
        ELSE IF us[uid].role = TEACHER
            THEN IF HasProfile(tp, uid)
                    THEN [teacher_id |-> ProfileOf(tp, uid).teacher_id]
                    ELSE None
            ELSE None

\* ProfileSerializer(request.user).data.  first_name and last_name are never
\* set by any handler and stay empty.
ProfileSerializer_data(uid, us, sp, tp) ==
    [id |-> uid, username |-> us[uid].username, email |-> us[uid].email,
     first_name |-> "", last_name |-> "", role |-> us[uid].role,
     profile |-> get_profile(uid, us, sp, tp)]

\* Variant: an authentication step that takes any token naming a user.
AuthenticatedUser_anytoken(us, token) ==
    IF token.user_id \in DOMAIN us THEN token.user_id ELSE NoUser

\* The identity the JWT authentication class derives from the bearer token:
\* the user an access token names, looked up in the table; otherwise nobody.
AuthenticatedUser(us, token) ==
    IF token.token_type = "access" /\ token.user_id \in DOMAIN us
        THEN token.user_id
        ELSE NoUser

\* ProfileView behind JWT authentication and IsAuthenticated: a request with
\* no token is rejected by the permission check and one with a token that is
\* not a valid access token by the authentication step, both before get runs.
ProfileView_get(token, us, sp, tp) ==
    LET uid == AuthenticatedUser(us, token)
    IN  IF token = NoToken
            THEN custom_exception_handler(NotAuthenticated)
            ELSE IF uid = NoUser
                THEN custom_exception_handler(
                         AuthenticationFailed("Given token not valid for any token type"))
            ELSE Response(200, [message |-> "User profile retrieved successfully.",
                                data |-> ProfileSerializer_data(uid, us, sp, tp)])

----------------------------------------------------------------------------
(* State machine *)

Idle == [pc |-> "idle"]

InFlight(w) == req[w].pc \in {"create_user", "set_role", "create_profile"}

\* Requests that passed validation and have not yet inserted their user.
PendingInserts == Cardinality({w \in Workers : req[w].pc = "create_user"})

Done(w, resp) == [req[w] EXCEPT !.pc = "done", !.resp = resp]

NoResponse == Response(0, <<>>)
NoLast == [op |-> "none"]

Init ==
    /\ users = <<>>
    /\ studentProfiles = <<>>
    /\ teacherProfiles = <<>>
    /\ req = [w \in Workers |-> Idle]
    /\ last = NoLast

\* StudentRegisterView.create / TeacherRegisterView.create up to the call of
\* perform_create: is_valid(raise_exception=True), and the reads of
\* validated_data at the head of the serializer's create.  A request that
\* will insert a user is taken only while the table has room for it (MaxUsers).
RegBegin(w, kind, body) ==
    /\ req[w].pc \in {"idle", "done"}
    /\ LET errs == RegisterSerializer_errors(users, body)
           new == [pc |-> "create_user", kind |-> kind, body |-> body,
                   uid |-> NoUser, validated |-> DOMAIN errs = {},
                   resp |-> NoResponse]
       IN  IF DOMAIN errs # {}
               THEN req' = [req EXCEPT ![w] =
                        [new EXCEPT !.pc = "done",
                            !.resp = custom_exception_handler(ValidationError(errs))]]
               ELSE IF validated_data(body).email = Missing
                   THEN req' = [req EXCEPT ![w] =
                            [new EXCEPT !.pc = "done",
                                !.resp = custom_exception_handler(OtherError("KeyError"))]]
                   ELSE /\ Len(users) + PendingInserts < MaxUsers
                        /\ req' = [req EXCEPT ![w] = new]
    /\ UNCHANGED <<users, studentProfiles, teacherProfiles, last>>

\* serializer.create, first statement: User.objects.create_user(...), inside
\* perform_create's try.
RegCreateUser(w) ==
    /\ req[w].pc = "create_user"
    /\ LET d == validated_data(req[w].body)
           r == create_user(d.username, d.email, d.password, Missing,
                            users, studentProfiles, teacherProfiles)
       IN  /\ users' = r.users
           /\ studentProfiles' = r.sp
           /\ teacherProfiles' = r.tp
           /\ req' = [req EXCEPT ![w] =
                  IF r.raised # ""
                      THEN Done(w, custom_exception_handler(perform_create_except(r.raised)))
                      ELSE [req[w] EXCEPT !.pc = "set_role", !.uid = r.uid]]
           /\ last' = IF r.raised # "" THEN last ELSE NoLast

\* serializer.create, second statement: user.role = <role>; user.save().
RegSetRole(w) ==
    /\ req[w].pc = "set_role"
    /\ LET r == User_save_existing("User", req[w].uid, HandlerRole(req[w].kind),
                                   users, studentProfiles, teacherProfiles)
       IN  /\ users' = r.users
           /\ studentProfiles' = r.sp
           /\ teacherProfiles' = r.tp
    /\ req' = [req EXCEPT ![w].pc = "create_profile"]
    /\ last' = NoLast

\* serializer.create, third statement: <Profile>.objects.create(user=user),
\* and the view's 201 response.
RegCreateProfile(w) ==
    /\ req[w].pc = "create_profile"
    /\ LET kind == req[w].kind
           uid == req[w].uid
           r == RegisterSerializer_create_profile(kind, uid, studentProfiles,
                                                  teacherProfiles)
       IN  /\ studentProfiles' = r.sp
           /\ teacherProfiles' = r.tp
           /\ req' = [req EXCEPT ![w] =
                  IF r.raised # ""
                      THEN Done(w, custom_exception_handler(perform_create_except(r.raised)))
                      ELSE Done(w, RegisterCreated(kind, users[uid]))]
           /\ last' = IF r.raised # "" THEN last ELSE NoLast
    /\ UNCHANGED users

\* A user created outside the handlers (shell, admin, fixture):
\* User.objects.create_user(username, email, password[, role=...]).
DirectCreate(username, email, password, roleArg) ==
    /\ Len(users) + PendingInserts < MaxUsers
    /\ LET r == create_user(username, email, password, roleArg,
                            users, studentProfiles, teacherProfiles)
       IN  /\ users' = r.users
           /\ studentProfiles' = r.sp
           /\ teacherProfiles' = r.tp
           /\ last' = IF r.raised # "" THEN last ELSE NoLast
    /\ UNCHANGED req

\* An existing user loaded and saved again with its fields unchanged.
ReSave(uid) ==
    /\ uid \in DOMAIN users
    /\ LET r == User_save_existing("User", uid, users[uid].role,
                                   users, studentProfiles, teacherProfiles)
       IN  /\ users' = r.users
           /\ studentProfiles' = r.sp
           /\ teacherProfiles' = r.tp
    /\ UNCHANGED <<req, last>>

\* POST /login/
Login(username, password) ==
    /\ last' = [op |-> "login", username |-> username,
                resp |-> LoginView_post(users, [username |-> username,
                                                password |-> password])]
    /\ UNCHANGED <<users, studentProfiles, teacherProfiles, req>>

\* The bearer tokens a client can hold: none, or one of the pair the last
\* login response handed out.
HeldTokens ==
    {NoToken} \cup
    (IF last.op = "login" /\ last.resp.status = 200
        THEN {last.resp.data.access, last.resp.data.refresh}
        ELSE {})

\* GET /profile/
ProfileGet(token) ==
    /\ last' = [op |-> "profile",
                resp |-> ProfileView_get(token, users, studentProfiles,
                                         teacherProfiles)]
    /\ UNCHANGED <<users, studentProfiles, teacherProfiles, req>>

Next ==
    \/ \E w \in Workers, r \in Requests : RegBegin(w, r[1], r[2])
    \/ \E w \in Workers : RegCreateUser(w)
    \/ \E w \in Workers : RegSetRole(w)
    \/ \E w \in Workers : RegCreateProfile(w)
    \/ \E c \in DirectUsers, r \in {Missing, "", ADMIN, STUDENT, TEACHER} :
          DirectCreate(c[1], c[2], c[3], r)
    \/ \E uid \in DOMAIN users : ReSave(uid)
    \/ \E u \in LoginNames, p \in Passwords \cup {Missing} : Login(u, p)
    \/ \E t \in HeldTokens : ProfileGet(t)

Spec == Init /\ [][Next]_vars

\* The store failing under a registration: the statement the request is about
\* to run raises a database error other than IntegrityError (connection lost,
\* lock timeout, disk full).  perform_create does not catch it, the request
\* ends in a server error, and what earlier statements committed stays.
RegStoreError(w) ==
    /\ InFlight(w)
    /\ req' = [req EXCEPT ![w] =
           Done(w, custom_exception_handler(perform_create_except("OperationalError")))]
    /\ UNCHANGED <<users, studentProfiles, teacherProfiles, last>>

\* ProfileView.get, the except branch: any exception raised while the
\* serializer builds its data is answered by the view itself with 500 and a
\* body of message and error_details.
ProfileView_get_except(e) ==
    Response(500, [message |-> "An unexpected server error occurred.",
                   error_details |-> e])

\* GET /profile/ by an authenticated caller with the store failing under the
\* serializer's read of the profile row.
ProfileGetStoreError(token) ==
    /\ AuthenticatedUser(users, token) # NoUser
    /\ last' = [op |-> "profile",
                resp |-> ProfileView_get_except("OperationalError")]
    /\ UNCHANGED <<users, studentProfiles, teacherProfiles, req>>

\* Registrations under store errors, with clients logging in and fetching
\* profiles meanwhile.
NextFault ==
    \/ \E w \in Workers, r \in Requests : RegBegin(w, r[1], r[2])
    \/ \E w \in Workers : RegCreateUser(w)
    \/ \E w \in Workers : RegSetRole(w)
    \/ \E w \in Workers : RegCreateProfile(w)
    \/ \E w \in Workers : RegStoreError(w)
    \/ \E u \in LoginNames, p \in Passwords \cup {Missing} : Login(u, p)
    \/ \E t \in HeldTokens : ProfileGet(t)
    \/ \E t \in HeldTokens : ProfileGetStoreError(t)

SpecFault == Init /\ [][NextFault]_vars

----------------------------------------------------------------------------
(* api/urls.py: routing *)

\* The request methods a client sends.
Methods == {"GET", "POST", "PUT", "PATCH", "DELETE"}

\* urlpatterns, in order: the route of each path() and the view it names.
urlpatterns ==
    << <<"register/student/", "StudentRegisterView">>,
       <<"register/teacher/", "TeacherRegisterView">>,
       <<"login/", "LoginView">>,
       <<"token/regresh/", "TokenRefreshView">>,
       <<"profile/", "ProfileView">> >>

\* The paths requests are sent to: every route of urlpatterns, the path
\* token/refresh/, and a path no route names.
Paths ==
    {urlpatterns[i][1] : i \in DOMAIN urlpatterns}
    \cup {"token/refresh/", "nowhere/"}

\* The URL resolver: the view of the first pattern that matches; the last
\* pattern, re_path(r"^.*$"), matches every path.
resolve(path) ==
    IF \E i \in DOMAIN urlpatterns : urlpatterns[i][1] = path
        THEN urlpatterns[CHOOSE i \in DOMAIN urlpatterns :
                             /\ urlpatterns[i][1] = path
                             /\ \A j \in 1..(i-1) : urlpatterns[j][1] # path][2]
        ELSE "NotFoundFallbackAPIView"

\* The methods each view class defines a handler for.
http_method_names(view) ==
    CASE view = "NotFoundFallbackAPIView" -> {"GET", "POST", "PUT", "DELETE"}
      [] view = "ProfileView" -> {"GET"}
      [] OTHER -> {"POST"}

\* APIView.http_method_not_allowed.
MethodNotAllowed(method) ==
    [type |-> "MethodNotAllowed",
     detail |-> CASE method = "GET" -> "Method \"GET\" not allowed."
                  [] method = "POST" -> "Method \"POST\" not allowed."
                  [] method = "PUT" -> "Method \"PUT\" not allowed."
                  [] method = "PATCH" -> "Method \"PATCH\" not allowed."
                  [] OTHER -> "Method \"DELETE\" not allowed."]

\* NotFoundFallbackAPIView.get, to which its post, put and delete delegate.
NotFoundFallbackAPIView_get ==
    Response(404, [detail |-> "The requested resource was not found.",
                   status_code |-> 404, error |-> TRUE])

\* TokenRefreshView.post: the body's refresh token is required and must be a
\* refresh token; the answer is a new access token for its user.
TokenRefreshView_post(token) ==
    IF token = NoToken
        THEN custom_exception_handler(
                 ValidationError([refresh |-> <<RequiredMessage>>]))
        ELSE IF token.token_type # "refresh"
            THEN custom_exception_handler(
                     [type |-> "InvalidToken", detail |-> "Token has wrong type"])
            ELSE Response(200, [access |-> AccessToken(token.user_id)])

\* APIView.dispatch: authentication and permissions first (only ProfileView
\* asks for an authenticated caller), then the handler of the method or
\* http_method_not_allowed.  The handlers of registration, login and profile
\* retrieval are the actions above.
dispatch(view, method, token, us, sp, tp) ==
    IF view = "ProfileView" /\ AuthenticatedUser(us, token) = NoUser
        THEN ProfileView_get(token, us, sp, tp)
        ELSE IF method \notin http_method_names(view)
            THEN custom_exception_handler(MethodNotAllowed(method))
            ELSE IF view = "NotFoundFallbackAPIView"
                THEN NotFoundFallbackAPIView_get
                ELSE TokenRefreshView_post(token)

\* A request the actions above do not cover: one the resolver hands to
\* NotFoundFallbackAPIView or TokenRefreshView, or one whose method the
\* resolved view has no handler for.
Request(method, path, token) ==
    /\ \/ resolve(path) \in {"NotFoundFallbackAPIView", "TokenRefreshView"}
       \/ method \notin http_method_names(resolve(path))
    /\ last' = [op |-> "request", method |-> method, path |-> path,
                view |-> resolve(path),
                resp |-> dispatch(resolve(path), method, token, users,
                                  studentProfiles, teacherProfiles)]
    /\ UNCHANGED <<users, studentProfiles, teacherProfiles, req>>

\* Requests to every path with every method, over tables filled directly.
NextRoute ==
    \/ \E c \in DirectUsers, r \in {Missing, "", ADMIN, STUDENT, TEACHER} :
          DirectCreate(c[1], c[2], c[3], r)
    \/ \E u \in LoginNames, p \in Passwords \cup {Missing} : Login(u, p)
    \/ \E m \in Methods, p \in Paths, t \in HeldTokens : Request(m, p, t)

SpecRoute == Init /\ [][NextRoute]_vars

----------------------------------------------------------------------------

(* user/models.py: the proxy models and their managers *)

Classes == {"User", "Student", "Teacher"}

\* cls.objects.create_user(username, email, password): User keeps the default
\* UserManager; StudentManager and TeacherManager call super().create_user,
\* which their base class BaseUserManager does not define, and the call ends
\* in an AttributeError before anything is built or saved.
Manager_create_user(cls, username, email, password, roleArg, us, sp, tp) ==
    IF cls = "User"
        THEN create_user(username, email, password, roleArg, us, sp, tp)
        ELSE [raised |-> "AttributeError", uid |-> NoUser,
              users |-> us, sp |-> sp, tp |-> tp]

\* An instance built through class cls (cls(username=..., email=...[, role=...]),
\* set_password) and saved for the first time.
ProxyCreate(cls, username, email, password, roleArg) ==
    /\ Len(users) + PendingInserts < MaxUsers
    /\ LET r == User_save_new(cls,
                              [username |-> username, email |-> email,
                               password |-> make_password(password),
                               role |-> RoleFieldDefault(roleArg)],
                              users, studentProfiles, teacherProfiles)
       IN  /\ users' = r.users
           /\ studentProfiles' = r.sp
           /\ teacherProfiles' = r.tp
           /\ last' = [op |-> "create", via |-> "save", cls |-> cls,
                       roleArg |-> roleArg, raised |-> r.raised, uid |-> r.uid]
    /\ UNCHANGED req

\* cls.objects.create_user(username, email, password[, role=...]).
ManagerCreateUser(cls, username, email, password, roleArg) ==
    /\ Len(users) + PendingInserts < MaxUsers
    /\ LET r == Manager_create_user(cls, username, email, password, roleArg,
                                    users, studentProfiles, teacherProfiles)
       IN  /\ users' = r.users
           /\ studentProfiles' = r.sp
           /\ teacherProfiles' = r.tp
           /\ last' = [op |-> "create", via |-> "create_user", cls |-> cls,
                       roleArg |-> roleArg, raised |-> r.raised, uid |-> r.uid]
    /\ UNCHANGED req

\* Users created through the three model classes, and logins by them.
NextProxy ==
    \/ \E cls \in Classes, c \in DirectUsers,
          r \in {Missing, "", ADMIN, STUDENT, TEACHER} :
          ProxyCreate(cls, c[1], c[2], c[3], r)
    \/ \E cls \in Classes, c \in DirectUsers,
          r \in {Missing, "", ADMIN, STUDENT, TEACHER} :
          ManagerCreateUser(cls, c[1], c[2], c[3], r)
    \/ \E u \in LoginNames, p \in Passwords \cup {Missing} : Login(u, p)

SpecProxy == Init /\ [][NextProxy]_vars

----------------------------------------------------------------------------

(* Properties *)

Attrs(u, p) == [username |-> u, password |-> p]

IsDone(w) == req[w].pc = "done"
Created(w) == IsDone(w) /\ req[w].resp.status = 201

\* The translated uniqueness conflict: 400 with the generic non-field message.
IsConflict(resp) ==
    /\ resp.status = 400
    /\ "non_field_errors" \in DOMAIN resp.data
    /\ resp.data.non_field_errors = <<ConflictMessage>>

\* The validation error of the username field: 400 with the unique message.
IsUsernameFieldError(resp) ==
    /\ resp.status = 400
    /\ "username" \in DOMAIN resp.data
    /\ resp.data.username = <<UniqueMessage>>

UsernameRows(us, name) == Cardinality({i \in DOMAIN us : us[i].username = name})
EmailTaken(us, email) == \E i \in DOMAIN us : us[i].email = email
Profiles(uid) == ProfileCount(studentProfiles, uid) + ProfileCount(teacherProfiles, uid)

\* Worker w takes a new registration request in this step.
Submitted(w) ==
    /\ req[w].pc \in {"idle", "done"}
    /\ req'[w].pc # "idle"
    /\ req'[w] # req[w]

\* A registration that ended with 201 holds the username.
HeldByEarlierRegistration(name) ==
    \E w \in Workers : Created(w) /\ req[w].body.username = name

\* No registration of user uid is under way.
Settled(uid) == ~ \E w \in Workers : InFlight(w) /\ req[w].uid = uid

\* C1: in every state of the tables, a login with an unknown username and a
\* login with a known username and a wrong password get the same response:
\* status 401 and the detail "Invalid username or password.".
C1_LoginFailureUniform ==
    \A u1, u2 \in LoginNames \ {Missing}, p1, p2 \in Passwords :
        ( /\ ~UsernameTaken(users, u1)
          /\ UsernameTaken(users, u2)
          /\ ~check_password(p2, users[UserByName(users, u2)].password) )
        => LET a == LoginView_post(users, Attrs(u1, p1))
               b == LoginView_post(users, Attrs(u2, p2))
           IN  /\ a = b
               /\ a.status = 401
               /\ a.data.detail = InvalidLoginMessage

\* A login for an existing user was answered 401 (its password was wrong).
C1_Witness ==
    /\ last.op = "login"
    /\ UsernameTaken(users, last.username)
    /\ last.resp.status = 401
    /\ last.resp.data.detail = InvalidLoginMessage

\* C2: every 200 login response has exactly the keys refresh, access, user_id,
\* username, email, role and message, and user_id, username, email and role
\* are the stored fields of the user whose password was verified.
C2_LoginSuccessPayload ==
    \A u \in LoginNames, p \in Passwords \cup {Missing} :
        LET r == LoginView_post(users, Attrs(u, p))
        IN  r.status = 200 =>
              /\ DOMAIN r.data = {"refresh", "access", "user_id", "username",
                                  "email", "role", "message"}
              /\ r.data.user_id \in DOMAIN users
              /\ LET row == users[r.data.user_id]
                 IN  /\ row.username = u
                     /\ check_password(p, row.password)
                     /\ r.data.username = row.username
                     /\ r.data.email = row.email
                     /\ r.data.role = row.role
              /\ r.data.access = AccessToken(r.data.user_id)
              /\ r.data.refresh = RefreshToken(r.data.user_id)

\* A login was answered 200.
C2_Witness ==
    /\ last.op = "login"
    /\ last.resp.status = 200
    /\ last.resp.data.username = last.username

C4_EmailConflictRejected ==
    [][\A w \in Workers :
          ( /\ req[w].pc = "create_user"
            /\ req'[w].pc # "create_user"
            /\ ~UsernameTaken(users, req[w].body.username)
            /\ EmailTaken(users, req[w].body.email) )
          => /\ users' = users
             /\ IsConflict(req'[w].resp)]_vars

\* C5: a registration that ended with 201 created one user row and one profile
\* row; one that ended any other way left no row it inserted.
C5_RegistrationAtomic ==
    \A w \in Workers :
        IsDone(w) =>
            IF req[w].resp.status = 201
                THEN req[w].uid \in DOMAIN users /\ Profiles(req[w].uid) = 1
                ELSE req[w].uid \notin DOMAIN users

\* C6: every user no registration is still working on has, by role, one
\* StudentProfile and no TeacherProfile (STUDENT), one TeacherProfile and no
\* StudentProfile (TEACHER), or no profile (ADMIN).
C6_RoleProfileInvariant ==
    \A uid \in DOMAIN users :
        Settled(uid) =>
            LET ns == ProfileCount(studentProfiles, uid)
                nt == ProfileCount(teacherProfiles, uid)
            IN  CASE users[uid].role = STUDENT -> ns = 1 /\ nt = 0
                  [] users[uid].role = TEACHER -> ns = 0 /\ nt = 1
                  [] users[uid].role = ADMIN -> ns = 0 /\ nt = 0
                  [] OTHER -> FALSE

\* A registered student and a directly created teacher, both with profile.
C6_Witness ==
    \E w \in Workers, uid \in DOMAIN users :
        /\ Created(w)
        /\ users[req[w].uid].role = STUDENT
        /\ HasProfile(studentProfiles, req[w].uid)
        /\ \A v \in Workers : req[v].pc = "idle" \/ req[v].uid # uid
        /\ users[uid].role = TEACHER
        /\ HasProfile(teacherProfiles, uid)

\* C7: after a teacher registration ended with 201 the created user has a
\* TeacherProfile and no StudentProfile; after a student registration, a
\* StudentProfile and no TeacherProfile.
C7_MatchingProfileOnly ==
    \A w \in Workers :
        Created(w) =>
            LET uid == req[w].uid
            IN  IF req[w].kind = "teacher"
                    THEN /\ \E i \in DOMAIN teacherProfiles : teacherProfiles[i].user = uid
                         /\ ~ \E i \in DOMAIN studentProfiles : studentProfiles[i].user = uid
                    ELSE /\ \E i \in DOMAIN studentProfiles : studentProfiles[i].user = uid
                         /\ ~ \E i \in DOMAIN teacherProfiles : teacherProfiles[i].user = uid

\* A teacher registration ended with 201.
C7_Witness ==
    \E w \in Workers : Created(w) /\ req[w].kind = "teacher"

\* C8: two finished registrations with the same username that both passed
\* validation (so neither had written when the other validated), the username
\* written by nobody else: one ended 201, the other 400 with the generic
\* conflict message, and one user row and one profile row exist for the name.
C8_ConcurrentSameUsername ==
    \A w1, w2 \in Workers :
        ( /\ w1 # w2
          /\ IsDone(w1) /\ IsDone(w2)
          /\ req[w1].validated /\ req[w2].validated
          /\ req[w1].body.username = req[w2].body.username
          /\ req[w1].body.email # Missing /\ req[w2].body.email # Missing
          /\ \A i \in DOMAIN users :
                 users[i].username = req[w1].body.username
                 => i \in {req[w1].uid, req[w2].uid} )
        => /\ \/ Created(w1) /\ IsConflict(req[w2].resp)
              \/ Created(w2) /\ IsConflict(req[w1].resp)
           /\ UsernameRows(users, req[w1].body.username) = 1
           /\ Profiles(UserByName(users, req[w1].body.username)) = 1

\* Two such registrations have finished.
C8_Witness ==
    \E w1, w2 \in Workers :
        /\ w1 # w2
        /\ Created(w1)
        /\ IsDone(w2) /\ req[w2].validated
        /\ req[w1].body.username = req[w2].body.username
        /\ IsConflict(req[w2].resp)

\* C9: the user a student (teacher) registration created has role STUDENT
\* (TEACHER), whatever role the request body carried.
C9_RoleForced ==
    \A w \in Workers :
        Created(w) =>
            users[req[w].uid].role =
                (IF req[w].kind = "student" THEN STUDENT ELSE TEACHER)

\* A registration whose body carried another role ended with 201.
C9_Witness ==
    \E w \in Workers :
        /\ Created(w)
        /\ req[w].body.role \in Role
        /\ req[w].body.role # users[req[w].uid].role

\* C10: after a student registration ended with 201, a profile fetch with that
\* user's access token is answered 200 with role STUDENT and a profile object
\* whose only key is student_id.
C10_StudentProfileFetch ==
    \A w \in Workers :
        (Created(w) /\ req[w].kind = "student") =>
            LET r == ProfileView_get(AccessToken(req[w].uid), users,
                                     studentProfiles, teacherProfiles)
            IN  /\ r.status = 200
                /\ r.data.data.id = req[w].uid
                /\ r.data.data.role = STUDENT
                /\ DOMAIN r.data.data.profile = {"student_id"}

\* A registered student fetched the profile and got 200.
C10_Witness ==
    /\ last.op = "profile"
    /\ last.resp.status = 200
    /\ last.resp.data.data.role = STUDENT
    /\ DOMAIN last.resp.data.data.profile = {"student_id"}
    /\ \E w \in Workers :
           Created(w) /\ req[w].kind = "student"
           /\ req[w].uid = last.resp.data.data.id

\* A login with (u, p) is answered 200 and reports role r.
LoginReports(u, p, r) ==
    LET resp == LoginView_post(users, Attrs(u, p))
    IN  resp.status = 200 /\ resp.data.role = r

\* C11: a student (teacher) registration that ended with 201 for username u
\* and password p leaves a state where a login with (u, p) is answered 200
\* with role STUDENT (TEACHER), and no later step of any registration, direct
\* creation, re-save, login or profile fetch takes that away: a step that
\* leaves the user table alone leaves every login's answer alone, and a step
\* that writes the table keeps the answer for every user no registration is
\* still working on.
C11_RegisteredLoginPersists ==
    /\ [](\A w \in Workers :
              Created(w) =>
                  LoginReports(req[w].body.username, req[w].body.password,
                               HandlerRole(req[w].kind)))
    /\ [][ users' = users
           \/ \A u \in Usernames, p \in Passwords, r \in {STUDENT, TEACHER} :
                  (LoginReports(u, p, r) /\ Settled(UserByName(users, u)))
                      => LoginReports(u, p, r)'
         ]_vars

\* A registered student logged in with 200 and role STUDENT after the other
\* worker's registration had also ended with 201.
C11_Witness ==
    \E w1, w2 \in Workers :
        /\ w1 # w2
        /\ Created(w1) /\ req[w1].kind = "student"
        /\ Created(w2)
        /\ last.op = "login"
        /\ last.username = req[w1].body.username
        /\ last.resp.status = 200
        /\ last.resp.data.role = STUDENT

\* What a caller can present without being authenticated: no token, a
\* refresh token, or an access token naming no user of the table.
UnauthenticatedTokens ==
    {NoToken}
    \cup {RefreshToken(uid) : uid \in 1..MaxUsers}
    \cup {AccessToken(uid) : uid \in (1..MaxUsers) \ DOMAIN users}

\* The keys under which ProfileView and ProfileSerializer return user data.
ProfileKeys ==
    {"data", "id", "username", "email", "first_name", "last_name", "role",
     "profile"}

\* C12: a GET /profile/ by a caller that is not authenticated is rejected
\* (401 or 403) before ProfileView.get runs, and its response carries none of
\* the profile keys of any user.
C12_UnauthenticatedProfileRejected ==
    \A t \in UnauthenticatedTokens :
        LET r == ProfileView_get(t, users, studentProfiles, teacherProfiles)
        IN  /\ r.status \in {401, 403}
            /\ DOMAIN r.data \cap ProfileKeys = {}

\* A profile fetch was rejected while a user with a profile existed.
C12_Witness ==
    /\ last.op = "profile"
    /\ last.resp.status = 401
    /\ DOMAIN last.resp.data \cap ProfileKeys = {}
    /\ \E uid \in DOMAIN users : Profiles(uid) = 1

\* C13: for every user of the table, a profile fetch with that user's access
\* token is answered 200, and its profile sub-object has the single key
\* student_id when the role is STUDENT and a StudentProfile row exists, the
\* single key teacher_id when the role is TEACHER and a TeacherProfile row
\* exists, and is null otherwise (role ADMIN, or the matching row absent).
C13_ProfileSubObject ==
    \A uid \in DOMAIN users :
        LET r == ProfileView_get(AccessToken(uid), users, studentProfiles,
                                 teacherProfiles)
        IN  /\ r.status = 200
            /\ DOMAIN r.data = {"message", "data"}
            /\ CASE users[uid].role = STUDENT
                        /\ (\E i \in DOMAIN studentProfiles :
                                studentProfiles[i].user = uid)
                      -> DOMAIN r.data.data.profile = {"student_id"}
                 [] users[uid].role = TEACHER
                        /\ (\E i \in DOMAIN teacherProfiles :
                                teacherProfiles[i].user = uid)
                      -> DOMAIN r.data.data.profile = {"teacher_id"}
                 [] OTHER -> r.data.data.profile = None

\* A user whose role is STUDENT and whose StudentProfile row is absent (the
\* registration has not yet inserted it) fetched the profile and got 200 with
\* a null sub-object.
C13_Witness ==
    /\ last.op = "profile"
    /\ last.resp.status = 200
    /\ last.resp.data.data.role = STUDENT
    /\ last.resp.data.data.profile = None
    /\ ~ HasProfile(studentProfiles, last.resp.data.data.id)

\* C14: no step changes the role of a user row that is already in the table.
C14_RoleImmutable ==
    [][ \A uid \in DOMAIN users : users'[uid].role = users[uid].role ]_vars

\* The responses a state holds: those of the finished registrations and that
\* of the last login, profile fetch or other request.
HeldResponses ==
    {req[w].resp : w \in {v \in Workers : IsDone(v)}}
    \cup (IF last.op = "none" THEN {} ELSE {last.resp})

\* The uniform flags of an error body: status_code, equal to the status, and
\* error = true.
HasErrorFlags(resp) ==
    /\ {"status_code", "error"} \subseteq DOMAIN resp.data
    /\ resp.data.status_code = resp.status
    /\ resp.data.error = TRUE

\* C15: every response with a client-error status (400 validation or
\* conflict, 401 authentication or permission, 403, 404, 405) carries
\* status_code, equal to its status, and error = true, and so does the 500
\* with which profile retrieval answers an unexpected fault.
C15_UniformErrorFlags ==
    /\ \A resp \in HeldResponses :
           resp.status \in 400..499 => HasErrorFlags(resp)
    /\ (last.op = "profile" /\ last.resp.status = 500)
           => HasErrorFlags(last.resp)

\* The routes the interface names, token/refresh/ among them.
NamedRoutes ==
    {"register/student/", "register/teacher/", "login/", "token/refresh/",
     "token/regresh/", "profile/"}

\* C16: a request to a path that is none of the named routes is answered,
\* whatever its method, with 404 and the body {detail, status_code: 404,
\* error: true}.
C16_UnmatchedRoute404 ==
    (last.op = "request" /\ last.path \notin NamedRoutes)
        => /\ last.resp.status = 404
           /\ DOMAIN last.resp.data = {"detail", "status_code", "error"}
           /\ last.resp.data.status_code = 404
           /\ last.resp.data.error = TRUE

\* C17: a POST to token/refresh/ is dispatched to TokenRefreshView and not to
\* NotFoundFallbackAPIView.
C17_TokenRefreshRouted ==
    (last.op = "request" /\ last.method = "POST" /\ last.path = "token/refresh/")
        => /\ last.view = "TokenRefreshView"
           /\ last.resp.status # 404

\* C18: a user created through class cls without an explicit role is persisted
\* with the base_role of that class: STUDENT through Student, TEACHER through
\* Teacher, ADMIN through User.
C18_BaseRoleAtFirstSave ==
    (last.op = "create" /\ last.roleArg = Missing /\ last.uid # NoUser)
        => users[last.uid].role = base_role(last.cls)

\* C19: in every state and for every user, delivering the save event to the
\* receiver (as a creation or as a re-save) leaves at most one StudentProfile
\* and at most one TeacherProfile for the user and touches no other user's
\* rows, and delivering it a second time changes nothing.
C19_SyncIdempotent ==
    \A uid \in DOMAIN users, created \in BOOLEAN :
        LET once == create_profile_for_user(uid, users[uid].role, created,
                                            studentProfiles, teacherProfiles)
            twice == create_profile_for_user(uid, users[uid].role, created,
                                             once.sp, once.tp)
        IN  /\ ProfileCount(once.sp, uid) <= 1
            /\ ProfileCount(once.tp, uid) <= 1
            /\ \A other \in DOMAIN users \ {uid} :
                   /\ ProfileCount(once.sp, other)
                          = ProfileCount(studentProfiles, other)
                   /\ ProfileCount(once.tp, other)
                          = ProfileCount(teacherProfiles, other)
            /\ twice = once

\* A teacher created outside the handlers got its profile from the receiver,
\* was saved again, and a further creation event would add nothing; and a
\* student whose profile row is still absent would get exactly one.
C19_Witness ==
    /\ \E uid \in DOMAIN users :
           /\ users[uid].role = TEACHER
           /\ \A w \in Workers : req[w].pc = "idle" \/ req[w].uid # uid
           /\ ProfileCount(teacherProfiles, uid) = 1
           /\ create_profile_for_user(uid, TEACHER, TRUE, studentProfiles,
                                      teacherProfiles)
                  = [sp |-> studentProfiles, tp |-> teacherProfiles]
    /\ \E uid \in DOMAIN users :
           /\ users[uid].role = STUDENT
           /\ ~ HasProfile(studentProfiles, uid)
           /\ Len(create_profile_for_user(uid, STUDENT, TRUE, studentProfiles,
                                          teacherProfiles).sp)
                  = Len(studentProfiles) + 1

\* C20: a login or profile fetch answered while a registration is under way
\* that sees the user being registered sees it with the handler's role and
\* with its profile row present.
C20_NoPartialObservation ==
    \A w \in Workers :
        (InFlight(w) /\ req[w].uid # NoUser) =>
            /\ ( /\ last.op = "login"
                 /\ last.resp.status = 200
                 /\ last.resp.data.user_id = req[w].uid )
               => /\ last.resp.data.role = HandlerRole(req[w].kind)
                  /\ Profiles(req[w].uid) = 1
            /\ ( /\ last.op = "profile"
                 /\ last.resp.status = 200
                 /\ last.resp.data.data.id = req[w].uid )
               => /\ last.resp.data.data.role = HandlerRole(req[w].kind)
                  /\ last.resp.data.data.profile # None

=============================================================================
